---- MODULE Spec2Model ----
(***************************************************************************)
(* Model of gravador_tela.py: the Recorder window (UI thread: Record and   *)
(* Stop buttons, countdown timer, finished/error slots), the               *)
(* RecorderThread worker (run, _retry_no_audio, stop), the ffmpeg child    *)
(* processes it spawns, and detect_audio_source.                           *)
(***************************************************************************)
EXTENDS Integers, Sequences, FiniteSets, TLC

VARIABLES recording, thread, cd_val, tmr_cd, tmr_el, btn_rec, btn_stop,
          lbl_st, threads, events

vars == <<recording, thread, cd_val, tmr_cd, tmr_el, btn_rec, btn_stop,
          lbl_st, threads, events>>

ui == <<recording, thread, cd_val, tmr_cd, tmr_el, btn_rec, btn_stop, lbl_st>>

\* ---- bounds -------------------------------------------------------------
\* sessions (calls of Recorder._start) in Spec, where sessions interleave
MaxSessions == 2
\* sessions in SessionSpec and FairSpec, which follow sessions one by one
MaxRuns == 1
\* longest raw output of "pactl get-default-sink" that is enumerated
MaxOut == 2

\* ---- inputs -------------------------------------------------------------
\* items of the Quality combo box
Qualities == {"Low", "Medium", "High", "Ultra"}

\* characters of a pactl output: a name character and a whitespace
Chars == {"a", " "}

Strings == UNION {[1..k -> Chars] : k \in 0..MaxOut}

\* subprocess.check_output either returns the output or raises
\* (CalledProcessError / FileNotFoundError: "fail", TimeoutExpired: "timeout")
SinkOutcomes == {[kind |-> "ok", out |-> s] : s \in Strings}
                \cup {[kind |-> k, out |-> <<>>] : k \in {"fail", "timeout"}}

InfoOutcomes == {[kind |-> k, out |-> <<>>] : k \in {"ok", "fail", "timeout"}}

\* exit statuses of ffmpeg as seen in Popen.returncode: success, ffmpeg's own
\* exit on SIGINT, death by SIGINT, and a failure
ReturnCodes == {0, 255, -2, 1}

\* ---- detect_audio_source ------------------------------------------------
RECURSIVE lstrip(_)
lstrip(s) == IF s # <<>> /\ Head(s) = " " THEN lstrip(Tail(s)) ELSE s

RECURSIVE rstrip(_)
rstrip(s) == IF s # <<>> /\ s[Len(s)] = " "
             THEN rstrip(SubSeq(s, 1, Len(s) - 1)) ELSE s

\* bytes.decode().strip()
strip(s) == rstrip(lstrip(s))

\* detect_audio_source without the "pactl info" fallback
detect_audio_source_noinfo(sink, info) ==
    IF sink.kind = "ok" /\ strip(sink.out) # <<>>
    THEN [driver |-> "pulse", device |-> strip(sink.out) \o <<".monitor">>,
          probes |-> <<"get-default-sink">>]
    ELSE [driver |-> "alsa", device |-> <<"default">>,
          probes |-> <<"get-default-sink", "info">>]

\* probes lists the pactl commands that were run, in order
detect_audio_source(sink, info) ==
    IF sink.kind = "ok" /\ strip(sink.out) # <<>>
    THEN [driver |-> "pulse", device |-> strip(sink.out) \o <<".monitor">>,
          probes |-> <<"get-default-sink">>]
    ELSE IF info.kind = "ok"
    THEN [driver |-> "pulse", device |-> <<"default">>,
          probes |-> <<"get-default-sink", "info">>]
    ELSE [driver |-> "alsa", device |-> <<"default">>,
          probes |-> <<"get-default-sink", "info">>]

\* ---- RecorderThread -----------------------------------------------------
\* crf_map with the entries of High and Ultra exchanged
crf_map_swapped(quality) ==
    CASE quality = "Low" -> 36
      [] quality = "Medium" -> 28
      [] quality = "High" -> 14
      [] quality = "Ultra" -> 20
      [] OTHER -> 28

\* crf_map.get(self.quality, "28")
crf_map(quality) ==
    CASE quality = "Low" -> 36
      [] quality = "Medium" -> 28
      [] quality = "High" -> 20
      [] quality = "Ultra" -> 14
      [] OTHER -> 28

NoCmd == [audio |-> FALSE, driver |-> "", device |-> <<>>, probes |-> <<>>,
          crf |-> 0, path |-> 0]

\* self._process = None
NoProcess == [st |-> "none", cmd |-> NoCmd, returncode |-> 0,
              sigint |-> FALSE, marker |-> FALSE]

\* RecorderThread.__init__ followed by QThread.start(): run() is pending
RecorderThread(output_path, quality, audio) ==
    [output_path |-> output_path, quality |-> quality, audio |-> audio,
     process |-> NoProcess, pc |-> "run", crf |-> 0, cmd |-> NoCmd,
     nlaunch |-> 0]

\* subprocess.Popen(cmd, ...) returned: a running child in its own group
Popen(cmd) == [st |-> "running", cmd |-> cmd, returncode |-> 0,
               sigint |-> FALSE, marker |-> FALSE]

\* Signal.emit from the worker thread: queued to the UI thread's event loop
emit(sig, i) == events' = Append(events, [sig |-> sig, th |-> i])

\* run(), lines 94-119: crf lookup, audio detection, the command line, with
\* the outcomes sink and info of the two pactl calls (made only with audio)
run_build_with(i, sink, info) ==
    /\ threads[i].pc = "run"
    /\ LET t == threads[i]
           crf == crf_map(t.quality)
           src == detect_audio_source(sink, info)
           cmd == IF t.audio
                  THEN [audio |-> TRUE, driver |-> src.driver,
                        device |-> src.device, probes |-> src.probes,
                        crf |-> crf, path |-> t.output_path]
                  ELSE [audio |-> FALSE, driver |-> "", device |-> <<>>,
                        probes |-> <<>>, crf |-> crf, path |-> t.output_path]
       IN threads' = [threads EXCEPT ![i] =
            [t EXCEPT !.pc = "popen", !.crf = crf, !.cmd = cmd]]
    /\ UNCHANGED <<ui, events>>

run_build(i) ==
    \E sink \in SinkOutcomes, info \in InfoOutcomes :
        run_build_with(i, sink, info)

\* run(), lines 121-127: Popen returns a child, or raises and the except
\* clause of line 136 emits error
run_popen(i) ==
    /\ threads[i].pc = "popen"
    /\ \/ /\ threads' = [threads EXCEPT ![i] =
                [@ EXCEPT !.process = Popen(threads[i].cmd),
                          !.pc = "communicate", !.nlaunch = @ + 1]]
          /\ UNCHANGED events
       \/ /\ threads' = [threads EXCEPT ![i] =
                [@ EXCEPT !.pc = "done", !.crf = 0, !.cmd = NoCmd]]
          /\ emit("error", i)
    /\ UNCHANGED ui

\* the child exits, on its own or on the interrupt, with any status; the
\* error stream of the first attempt (stderr=PIPE) may hold the marker
\* "Error opening input", that of the retry goes to DEVNULL
proc_exit(i) ==
    /\ threads[i].process.st = "running"
    /\ \E rc \in ReturnCodes, m \in BOOLEAN :
         /\ m => threads[i].pc = "communicate"
         /\ threads' = [threads EXCEPT ![i].process =
               [@ EXCEPT !.st = "exited", !.returncode = rc, !.marker = m,
                         !.sigint = FALSE]]
    /\ UNCHANGED <<ui, events>>

\* run_communicate that retries on any abnormal exit with audio, without
\* looking for the marker in the error stream
run_communicate_nomarker(i) ==
    /\ threads[i].pc = "communicate"
    /\ threads[i].process.st = "exited"
    /\ LET t == threads[i]
           p == t.process
       IN IF p.returncode \notin {0, 255, -2} /\ t.audio
          THEN /\ threads' = [threads EXCEPT ![i] =
                    [t EXCEPT !.pc = "retry", !.process.marker = FALSE]]
               /\ UNCHANGED events
          ELSE /\ threads' = [threads EXCEPT ![i] =
                    [t EXCEPT !.pc = "done", !.crf = 0, !.cmd = NoCmd,
                              !.process.marker = FALSE]]
               /\ emit("finished", i)
    /\ UNCHANGED ui

\* run(), lines 128-135: communicate() returns after the child's exit
run_communicate(i) ==
    /\ threads[i].pc = "communicate"
    /\ threads[i].process.st = "exited"
    /\ LET t == threads[i]
           p == t.process
       IN IF p.returncode \notin {0, 255, -2} /\ t.audio /\ p.marker
          THEN /\ threads' = [threads EXCEPT ![i] =
                    [t EXCEPT !.pc = "retry", !.process.marker = FALSE]]
               /\ UNCHANGED events
          ELSE /\ threads' = [threads EXCEPT ![i] =
                    [t EXCEPT !.pc = "done", !.crf = 0, !.cmd = NoCmd,
                              !.process.marker = FALSE]]
               /\ emit("finished", i)
    /\ UNCHANGED ui

\* _retry_no_audio(), lines 141-155: the command line without audio, Popen
retry_popen(i) ==
    /\ threads[i].pc = "retry"
    /\ LET t == threads[i]
           cmd == [audio |-> FALSE, driver |-> "", device |-> <<>>,
                   probes |-> <<>>, crf |-> t.crf, path |-> t.output_path]
       IN \/ /\ threads' = [threads EXCEPT ![i] =
                    [t EXCEPT !.process = Popen(cmd), !.pc = "wait",
                              !.cmd = cmd, !.nlaunch = @ + 1]]
             /\ UNCHANGED events
          \/ /\ threads' = [threads EXCEPT ![i] =
                    [t EXCEPT !.pc = "done", !.crf = 0, !.cmd = NoCmd]]
             /\ emit("error", i)
    /\ UNCHANGED ui

\* _retry_no_audio(), lines 156-157: wait() returns, finished is emitted
retry_wait(i) ==
    /\ threads[i].pc = "wait"
    /\ threads[i].process.st = "exited"
    /\ threads' = [threads EXCEPT ![i] =
          [@ EXCEPT !.pc = "done", !.crf = 0, !.cmd = NoCmd]]
    /\ emit("finished", i)
    /\ UNCHANGED ui

\* RecorderThread.stop(), called on the UI thread: SIGINT to the group of
\* the child that self._process holds, if it has not exited
stop(t) ==
    IF t.process.st = "running"
    THEN [t EXCEPT !.process.sigint = TRUE]
    ELSE t

\* ---- Recorder ----------------------------------------------------------
StartingIn(n) == CASE n = 3 -> "Starting in 3"
                   [] n = 2 -> "Starting in 2"
                   [] n = 1 -> "Starting in 1"
                   [] OTHER -> "Starting in 0"

\* datetime.now() to the second: starts are at least a countdown apart, so
\* the stamp of a session is modelled by its ordinal
now_ts == Len(threads) + 1

\* Recorder.__init__
Init ==
    /\ recording = FALSE
    /\ thread = 0
    /\ cd_val = 0
    /\ tmr_cd = FALSE
    /\ tmr_el = FALSE
    /\ btn_rec = TRUE
    /\ btn_stop = FALSE
    /\ lbl_st = "Ready"
    /\ threads = <<>>
    /\ events = <<>>

\* the body of _on_record, whatever the button's state
on_record_body ==
    IF recording
    THEN UNCHANGED vars
    ELSE /\ cd_val' = 3
         /\ btn_rec' = FALSE
         /\ lbl_st' = StartingIn(3)
         /\ tmr_cd' = TRUE
         /\ UNCHANGED <<recording, thread, tmr_el, btn_stop, threads, events>>

\* a click on Record: the button emits clicked only while it is enabled
on_record(cap) ==
    /\ btn_rec
    /\ Len(threads) < cap
    /\ on_record_body

\* _start, called by the last countdown tick
start(quality, audio) ==
    /\ threads' = Append(threads, RecorderThread(now_ts, quality, audio))
    /\ thread' = Len(threads) + 1
    /\ recording' = TRUE
    /\ tmr_el' = TRUE
    /\ btn_stop' = TRUE
    /\ lbl_st' = "Recording"

\* _tick_cd that tests cd_val >= 0: the session starts one tick late
tick_cd_late ==
    /\ tmr_cd
    /\ cd_val' = cd_val - 1
    /\ IF cd_val - 1 >= 0
       THEN /\ lbl_st' = StartingIn(cd_val - 1)
            /\ UNCHANGED <<recording, thread, tmr_cd, tmr_el, btn_rec,
                           btn_stop, threads, events>>
       ELSE /\ tmr_cd' = FALSE
            /\ \E quality \in Qualities, audio \in BOOLEAN :
                 start(quality, audio)
            /\ UNCHANGED <<btn_rec, events>>

\* _tick_cd: timeout of the countdown timer
tick_cd ==
    /\ tmr_cd
    /\ cd_val' = cd_val - 1
    /\ IF cd_val - 1 > 0
       THEN /\ lbl_st' = StartingIn(cd_val - 1)
            /\ UNCHANGED <<recording, thread, tmr_cd, tmr_el, btn_rec,
                           btn_stop, threads, events>>
       ELSE /\ tmr_cd' = FALSE
            /\ \E quality \in Qualities, audio \in BOOLEAN :
                 start(quality, audio)
            /\ UNCHANGED <<btn_rec, events>>

\* _on_stop: a click on Stop, emitted only while the button is enabled
on_stop ==
    /\ btn_stop
    /\ threads' = IF thread # 0
                  THEN [threads EXCEPT ![thread] = stop(threads[thread])]
                  ELSE threads
    /\ recording' = FALSE
    /\ tmr_el' = FALSE
    /\ btn_rec' = TRUE
    /\ btn_stop' = FALSE
    /\ lbl_st' = "Saving"
    /\ UNCHANGED <<thread, cd_val, tmr_cd, events>>

\* _on_done: delivery of a queued finished signal
on_done ==
    /\ events # <<>>
    /\ Head(events).sig = "finished"
    /\ events' = Tail(events)
    /\ lbl_st' = "Saved"
    /\ UNCHANGED <<recording, thread, cd_val, tmr_cd, tmr_el, btn_rec,
                   btn_stop, threads>>

\* _on_err that only sets the status text, as _on_done does
on_err_text_only ==
    /\ events # <<>>
    /\ Head(events).sig = "error"
    /\ events' = Tail(events)
    /\ lbl_st' = "Error"
    /\ UNCHANGED <<recording, thread, cd_val, tmr_cd, tmr_el, btn_rec,
                   btn_stop, threads>>

\* _on_err: delivery of a queued error signal
on_err ==
    /\ events # <<>>
    /\ Head(events).sig = "error"
    /\ events' = Tail(events)
    /\ lbl_st' = "Error"
    /\ recording' = FALSE
    /\ tmr_el' = FALSE
    /\ btn_rec' = TRUE
    /\ btn_stop' = FALSE
    /\ UNCHANGED <<thread, cd_val, tmr_cd, threads>>

Threads == 1..Len(threads)

\* the steps of worker i and of its child process
worker(i) ==
    /\ i \in Threads
    /\ \/ run_build(i)
       \/ run_popen(i)
       \/ run_communicate(i)
       \/ retry_popen(i)
       \/ retry_wait(i)

\* an interrupted child exits (the child honours SIGINT)
proc_exit_sigint(i) ==
    /\ i \in Threads
    /\ threads[i].process.sigint
    /\ proc_exit(i)

Next(cap) ==
    \/ on_record(cap)
    \/ tick_cd
    \/ on_stop
    \/ on_done
    \/ on_err
    \/ \E i \in Threads : run_build(i)
    \/ \E i \in Threads : run_popen(i)
    \/ \E i \in Threads : proc_exit(i)
    \/ \E i \in Threads : run_communicate(i)
    \/ \E i \in Threads : retry_popen(i)
    \/ \E i \in Threads : retry_wait(i)

\* sessions may overlap
Spec == Init /\ [][Next(MaxSessions)]_vars

\* the first MaxRuns sessions
SessionSpec == Init /\ [][Next(MaxRuns)]_vars

\* SessionSpec with the scheduling the program has: timers fire, queued
\* signals are delivered, the worker thread runs, an interrupted child exits.
\* Nothing makes the user click and nothing makes ffmpeg exit on its own.
FairSpec ==
    /\ SessionSpec
    /\ WF_vars(tick_cd)
    /\ WF_vars(on_done)
    /\ WF_vars(on_err)
    /\ \A i \in 1..MaxRuns : WF_vars(worker(i))
    /\ \A i \in 1..MaxRuns : WF_vars(proc_exit_sigint(i))

\* the state _start leaves behind: a worker just started with the options
\* read from the Quality combo box and the audio check box
WorkerInit ==
    /\ recording = TRUE
    /\ thread = 1
    /\ cd_val = 0
    /\ tmr_cd = FALSE
    /\ tmr_el = TRUE
    /\ btn_rec = FALSE
    /\ btn_stop = TRUE
    /\ lbl_st = "Recording"
    /\ \E quality \in Qualities, audio \in BOOLEAN :
         threads = <<RecorderThread(1, quality, audio)>>
    /\ events = <<>>

WorkerNext ==
    \/ run_build(1)
    \/ run_popen(1)
    \/ proc_exit(1)
    \/ run_communicate(1)
    \/ retry_popen(1)
    \/ retry_wait(1)

\* one RecorderThread from QThread.start() to the return of run(), with its
\* child processes, while the UI thread handles no event
WorkerSpec == WorkerInit /\ [][WorkerNext]_vars

\* ---- properties ---------------------------------------------------------
\* the worker thread of session i has been started and has not returned
WorkerOutstanding(i) == threads[i].pc # "done"

\* the encoder child of session i is running
EncoderRunning(i) == threads[i].process.st = "running"

\* the statuses run() treats as a normal end: success and the interrupt
NormalExit == {0, 255, -2}

\* the controller looks Idle: not recording, Record enabled, Stop disabled
IdleControls == ~recording /\ btn_rec /\ ~btn_stop

\* C1: at most one worker thread and at most one encoder child process is
\* outstanding at any time.
C1_AtMostOneSession ==
    /\ Cardinality({i \in Threads : WorkerOutstanding(i)}) <= 1
    /\ Cardinality({i \in Threads : EncoderRunning(i)}) <= 1

\* C2: the controller is never Idle (recording flag cleared and Record
\* enabled) while the encoder child of a session is still running.
C2_IdleOnlyAfterExit ==
    \A i \in Threads : EncoderRunning(i) => ~(~recording /\ btn_rec)

\* C3: once Stop has been requested for session i (the status reads Saving),
\* the worker of session i eventually returns with its encoder child exited
\* and the controller Idle.
C3_StopLeadsToIdle ==
    \A i \in 1..MaxRuns :
        (thread = i /\ lbl_st = "Saving")
            ~> (/\ i \in Threads
                /\ ~WorkerOutstanding(i)
                /\ ~EncoderRunning(i)
                /\ ~recording /\ btn_rec)

\* the controller is CountingDown, Recording or Stopping
NotIdle == tmr_cd \/ recording \/ \E i \in Threads : WorkerOutstanding(i)

\* C4: a start request made while the state is not Idle changes nothing.
C4_StartNoOpUnlessIdle ==
    [][(NotIdle /\ on_record(MaxSessions)) => UNCHANGED vars]_vars

\* C5: a first attempt with audio that exits abnormally with the marker is
\* followed by one retry, without audio and with the same output path, and
\* the report of a retry that exited normally leaves the status Saved and the
\* controller Idle.
C5_RetryOnceThenSaved ==
    [][\A i \in Threads :
        /\ (/\ run_communicate(i)
            /\ threads[i].audio
            /\ threads[i].process.returncode \notin NormalExit
            /\ threads[i].process.marker)
           => threads'[i].pc = "retry"
        /\ (retry_popen(i) /\ threads'[i].pc = "wait")
           => /\ threads'[i].nlaunch = 2
              /\ threads'[i].process.cmd.audio = FALSE
              /\ threads'[i].process.cmd.path = threads[i].process.cmd.path
        /\ (/\ on_done
            /\ Head(events).th = i
            /\ threads[i].nlaunch = 2
            /\ threads[i].process.returncode \in NormalExit)
           => (lbl_st' = "Saved" /\ IdleControls')]_vars

\* the report at the head of the queue is that of session i, whose retry
\* could not be launched or exited abnormally
RetryFailedReport(i) ==
    /\ events # <<>>
    /\ Head(events).th = i
    /\ \/ threads[i].nlaunch = 1 /\ Head(events).sig = "error"
       \/ /\ threads[i].nlaunch = 2
          /\ threads[i].process.returncode \notin NormalExit

\* C6: the report of a failed retry puts the controller in Error, never Saved.
C6_FailedRetryIsError ==
    [][\A i \in Threads :
        (RetryFailedReport(i) /\ (on_done \/ on_err))
            => (lbl_st' = "Error" /\ IdleControls')]_vars

\* every session that was started is over and reported, none is counting down
AllSessionsOver ==
    /\ Len(threads) > 0
    /\ ~tmr_cd
    /\ events = <<>>
    /\ \A i \in Threads : ~WorkerOutstanding(i) /\ ~EncoderRunning(i)

\* C7: once every encoder child has terminated and every report has been
\* handled, the controller is Idle.
C7_AlwaysBackToIdle == AllSessionsOver => IdleControls

\* the documented table
CrfTable == [q \in Qualities |->
    CASE q = "Low" -> 36 [] q = "Medium" -> 28 [] q = "High" -> 20
      [] q = "Ultra" -> 14]

QualityOrder == <<"Low", "Medium", "High", "Ultra">>

\* C8: every encoder child, first attempt or retry, is given the table value
\* of its session's preset; an unknown preset gives 28; a higher preset gives
\* a strictly lower value.
C8_QualityTable ==
    /\ \A i \in Threads :
         /\ threads[i].process.st # "none"
              => threads[i].process.cmd.crf = CrfTable[threads[i].quality]
         /\ threads[i].pc \in {"popen", "retry"}
              => threads[i].crf = CrfTable[threads[i].quality]
    /\ crf_map("Lossless") = 28
    /\ \A a, b \in 1..4 :
         a < b => crf_map(QualityOrder[a]) > crf_map(QualityOrder[b])

C8_Witness ==
    \E i \in Threads :
        /\ threads[i].quality = "Ultra"
        /\ threads[i].nlaunch = 2
        /\ threads[i].process.st = "running"
        /\ threads[i].process.cmd.crf = 14

\* the source the resolver is to return, the device name being the output
\* of the query without the surrounding whitespace
ExpectedSource(sink, info) ==
    IF sink.kind = "ok" /\ strip(sink.out) # <<>>
    THEN <<"pulse", strip(sink.out) \o <<".monitor">>, <<"get-default-sink">>>>
    ELSE IF info.kind = "ok"
    THEN <<"pulse", <<"default">>, <<"get-default-sink", "info">>>>
    ELSE <<"alsa", <<"default">>, <<"get-default-sink", "info">>>>

\* C9: the resolver returns the monitor of the default sink, else pulse
\* default if the status probe succeeds, else alsa default; it never raises,
\* and it runs the status probe only after the sink query has failed.
C9_ResolverFallback ==
    [][\A i \in Threads :
        (threads[i].audio /\ threads[i].pc = "run" /\ threads'[i].pc # "run")
        => \A sink \in SinkOutcomes, info \in InfoOutcomes :
            run_build_with(i, sink, info)
            => /\ threads'[i].pc = "popen"
               /\ events' = events
               /\ <<threads'[i].cmd.driver, threads'[i].cmd.device,
                    threads'[i].cmd.probes>> = ExpectedSource(sink, info)]_vars

C9_Witness ==
    \E i \in Threads :
        /\ threads[i].pc = "popen"
        /\ threads[i].cmd.driver = "alsa"
        /\ threads[i].cmd.device = <<"default">>

\* C10: when the first Popen raises, the worker emits error and returns
\* without a retry, and the delivery of that report leaves the status Error,
\* the recording flag cleared, the elapsed timer stopped, Record enabled and
\* Stop disabled.
C10_LaunchFailureIsError ==
    [][/\ \A i \in Threads :
            (run_popen(i) /\ threads'[i].pc = "done")
                => /\ events' = Append(events, [sig |-> "error", th |-> i])
                   /\ threads'[i].nlaunch = 0
                   /\ threads'[i].process.st = "none"
       /\ (on_err /\ threads[Head(events).th].nlaunch = 0)
                => /\ lbl_st' = "Error"
                   /\ ~recording' /\ ~tmr_el' /\ btn_rec' /\ ~btn_stop'
                   /\ threads' = threads]_vars

C10_Witness ==
    /\ lbl_st = "Error"
    /\ ~recording
    /\ events = <<>>
    /\ \E i \in Threads :
         threads[i].pc = "done" /\ threads[i].nlaunch = 0

\* the retry trigger as documented: audio requested, a status other than
\* 0, 255 and -2, and the marker in the error stream of the first attempt
RetryTrigger(i) ==
    /\ threads[i].audio
    /\ threads[i].process.returncode # 0
    /\ threads[i].process.returncode # 255
    /\ threads[i].process.returncode # -2
    /\ threads[i].process.marker

\* C11: after the exit of the first attempt the worker goes on to launch a
\* no-audio second process exactly when the retry trigger holds, and otherwise
\* reports and returns; a second process comes only from that retry, and no
\* session launches more than two processes.
C11_RetryTriggerAndBound ==
    [][\A i \in Threads :
        /\ run_communicate(i)
             => /\ (threads'[i].pc = "retry") <=> RetryTrigger(i)
                /\ ~RetryTrigger(i) => threads'[i].pc = "done"
                /\ threads'[i].nlaunch = 1
        /\ threads'[i].nlaunch # threads[i].nlaunch
             => \/ /\ threads[i].pc = "popen"
                   /\ threads'[i].nlaunch = 1
                \/ /\ threads[i].pc = "retry"
                   /\ threads'[i].nlaunch = 2
                   /\ threads'[i].process.cmd.audio = FALSE
        /\ threads[i].pc = "done" => threads'[i] = threads[i]
        /\ threads'[i].nlaunch <= 2]_vars

C11_Witness ==
    \E i \in Threads :
        /\ threads[i].audio
        /\ threads[i].nlaunch = 2
        /\ threads[i].pc = "wait"
        /\ threads[i].process.cmd.audio = FALSE

\* C12: an accepted start request sets the countdown to 3, disables Record
\* and starts no worker; the ticks show 2 and 1; a worker is created only by
\* the tick that takes the countdown from 1 to 0, which stops the countdown
\* timer and creates exactly one worker that has launched nothing yet.
C12_CountdownBeforeLaunch ==
    [][/\ (on_record(MaxSessions) /\ ~recording)
            => /\ cd_val' = 3 /\ ~btn_rec' /\ tmr_cd'
               /\ lbl_st' = "Starting in 3"
               /\ threads' = threads
       /\ (tick_cd /\ cd_val = 3)
            => (cd_val' = 2 /\ lbl_st' = "Starting in 2" /\ tmr_cd'
                /\ threads' = threads)
       /\ (tick_cd /\ cd_val = 2)
            => (cd_val' = 1 /\ lbl_st' = "Starting in 1" /\ tmr_cd'
                /\ threads' = threads)
       /\ threads' # threads /\ Len(threads') # Len(threads)
            => /\ tick_cd /\ cd_val = 1
               /\ ~tmr_cd' /\ recording' /\ lbl_st' = "Recording"
               /\ Len(threads') = Len(threads) + 1
               /\ thread' = Len(threads')
               /\ threads'[thread'].pc = "run"
               /\ threads'[thread'].process.st = "none"
       /\ tmr_cd => cd_val \in 1..3]_vars

C12_Witness ==
    /\ recording
    /\ ~tmr_cd
    /\ cd_val = 0
    /\ lbl_st = "Recording"
    /\ thread = 1
    /\ threads[1].pc = "run"

\* the report at the head of the queue is that of a session earlier than
\* the one now counting down or recording
StaleReport ==
    /\ events # <<>>
    /\ \/ tmr_cd
       \/ recording /\ Head(events).th < thread

\* C13: the delivery of the report of an earlier session changes neither the
\* status text, nor the recording flag, nor the buttons of the later session.
C13_ReportsAreIsolated ==
    [][(StaleReport /\ (on_done \/ on_err))
        => UNCHANGED <<lbl_st, recording, btn_rec, btn_stop>>]_vars

====
